---- MODULE Spec2Model ----
(***************************************************************************)
(* The JNI bridge of olm's public-key encryption (olm_pk.cpp): the two     *)
(* native contexts (OlmPkEncryption, OlmPkDecryption), the handle each     *)
(* Java object keeps in mNativeId, and the eight native entry points.      *)
(* Every entry point is one action; what it did (allocations, engine       *)
(* calls, frees, the exception thrown) is recorded, in program order, in   *)
(* lastCall.events.                                                        *)
(***************************************************************************)
EXTENDS Integers, Sequences, FiniteSets, TLC

\* ------------------------------------------------------------------ bounds
MaxLen == 1
MaxByte == 1
MaxRand == 2
MaxFree == 2

\* ------------------------------------------------------ values and helpers
Objs == {"enc", "dec"}

NullRef == [isNull |-> TRUE, v |-> <<>>]
Ref(s) == [isNull |-> FALSE, v |-> s]

NoError == ""

Garbage == 0 - 1

If(c, s) == IF c THEN s ELSE <<>>

Ev(kind, what) == <<kind, what>>

Has(events, e) == \E i \in 1..Len(events) : events[i] = e

Count(events, e) == Cardinality({i \in 1..Len(events) : events[i] = e})

Pos(events, e) == CHOOSE i \in 1..Len(events) : events[i] = e /\ \A j \in 1..(i - 1) : events[j] # e

HasKind(events, k) == \E i \in 1..Len(events) : events[i][1] = k

RECURSIVE Sum(_)
Sum(s) == IF s = <<>> THEN 0 ELSE Head(s) + Sum(Tail(s))

Plaintexts == UNION {[1..n -> 1..MaxByte] : n \in 0..MaxLen}

RandomBytes == 1..MaxRand

\* --------------------------------------------------------- JNI conversions
\* NewStringUTF: the characters of a C string, up to its first NUL.
RECURSIVE NewStringUTF(_)
NewStringUTF(buf) ==
  IF buf = <<>> \/ Head(buf) = 0 THEN <<>> ELSE <<Head(buf)>> \o NewStringUTF(Tail(buf))

\* GetStringUTFChars: the modified UTF-8 bytes of a Java string (NUL is two bytes).
RECURSIVE GetStringUTFChars(_)
GetStringUTFChars(str) ==
  IF str = <<>> THEN <<>>
  ELSE (IF Head(str) = 0 THEN <<192, 128>>
        ELSE IF Head(str) < 128 THEN <<Head(str)>>
        ELSE <<192 + (Head(str) \div 64), 128 + (Head(str) % 64)>>)
       \o GetStringUTFChars(Tail(str))

GetStringUTFLength(str) == Len(GetStringUTFChars(str))

\* ReleaseByteArrayElements: the array after the release of a view of it; the
\* view's bytes are copied back unless the mode is JNI_ABORT.
ReleaseByteArrayElements(array, elems, mode) == IF mode = "JNI_ABORT" THEN array ELSE elems

\* The caller turns the byte array Encrypt returned into the text of mCipherText.
RECURSIVE TextOfBytes(_)
TextOfBytes(bytes) ==
  IF bytes = <<>> THEN <<>>
  ELSE <<(IF Head(bytes) < 0 \/ Head(bytes) > 127 THEN 65533 ELSE Head(bytes))>>
       \o TextOfBytes(Tail(bytes))

\* ---------------------------------------------------- cryptographic engine
\* The engine is the external collaborator: a toy Diffie-Hellman box with the
\* interface the bridge uses. A private key is one random byte d, its public
\* key the text <<d>>, the shared secret of d and <<e>> is d * e.
olm_error == 0 - 1

olm_pk_key_length == 1
olm_pk_mac_length == 1
olm_pk_encrypt_random_length == 1
olm_pk_generate_key_random_length == 1
HeaderLen == 1

olm_pk_ciphertext_length(plaintextLength) == plaintextLength + HeaderLen

olm_pk_max_plaintext_length(ciphertextLength) == ciphertextLength

ZeroKey == [i \in 1..olm_pk_key_length |-> 0]

CipherMod == MaxByte + 1
MacMod == (MaxRand * MaxRand) + 2

\* The first byte of a ciphertext: the padding block, encrypted as the body is.
Header(s) == (s % MacMod) + 1

Shared(priv, pub) == priv[1] * pub[1]

EncByte(p, s) == ((p + s) % CipherMod) + 1

DecByte(c, s) == ((c - 1) + (CipherMod * (s + 1)) - s) % CipherMod

MacOf(s, ct) == ((s + Sum(ct)) % MacMod) + 1

\* set_recipient_key: rejects a short buffer, otherwise stores the key.
olm_pk_encryption_set_recipient_key(key, keyBytes, keyLen) ==
  IF keyLen < olm_pk_key_length
  THEN [ret |-> olm_error, key |-> key, last_error |-> "INPUT_BUFFER_TOO_SMALL"]
  ELSE [ret |-> 0, key |-> SubSeq(keyBytes, 1, olm_pk_key_length), last_error |-> "SUCCESS"]

\* encrypt: uses whatever recipient key the context holds (all zero when none
\* was set); ok = FALSE is a rejection for a reason opaque to the bridge.
olm_pk_encrypt(key, plaintext, random, ok) ==
  LET s == Shared(random, key)
      ct == <<Header(s)>> \o [i \in 1..Len(plaintext) |-> EncByte(plaintext[i], s)]
  IN IF ok
     THEN [ret |-> Len(ct), ciphertext |-> ct, mac |-> <<MacOf(s, ct)>>,
           ephemeral |-> SubSeq(random, 1, olm_pk_key_length), last_error |-> "SUCCESS"]
     ELSE [ret |-> olm_error, ciphertext |-> <<>>, mac |-> <<>>,
           ephemeral |-> <<>>, last_error |-> "OUTPUT_BUFFER_TOO_SMALL"]

\* generate_key: the private key is the random input, the public key its text.
olm_pk_generate_key(random, ok) ==
  IF ok
  THEN [ret |-> 0, key |-> SubSeq(random, 1, olm_pk_key_length),
        public |-> SubSeq(random, 1, olm_pk_key_length), last_error |-> "SUCCESS"]
  ELSE [ret |-> olm_error, key |-> ZeroKey, public |-> <<>>, last_error |-> "NOT_ENOUGH_RANDOM"]

\* decrypt: checks the MAC under the shared secret, then decodes the body.
olm_pk_decrypt(key, ephemeral, mac, ct) ==
  LET s == IF Len(ephemeral) >= olm_pk_key_length THEN Shared(key, ephemeral) ELSE 0
  IN IF Len(ephemeral) # olm_pk_key_length \/ Len(ct) < HeaderLen
     THEN [ret |-> olm_error, plaintext |-> <<>>, last_error |-> "INVALID_BASE64"]
     ELSE IF mac # <<MacOf(s, ct)>>
     THEN [ret |-> olm_error, plaintext |-> <<>>, last_error |-> "BAD_MESSAGE_MAC"]
     ELSE [ret |-> Len(ct) - HeaderLen,
           plaintext |-> [i \in 1..(Len(ct) - HeaderLen) |-> DecByte(ct[i + HeaderLen], s)],
           last_error |-> "SUCCESS"]

\* -------------------------------------------------------------------- state
VARIABLES
  mNativeId,   \* the handle each Java object holds: 0 (null) or 1 (its block)
  heap,        \* the object's native block: "none", "live" or "freed"
  nFree,       \* how many times the block was passed to free()
  uaf,         \* objects whose freed block was touched again
  ctx,         \* what the engine keeps in the block: key and last_error
  msg,         \* the EncryptedMessage object: mCipherText, mMac, mEphemeralKey
  origin,      \* what msg was made from (plaintext, recipient key), if intact
  pubKey,      \* the public key the last successful GenerateKey returned
  lastCall,    \* the last native call: what it was given and what it did
  crashed      \* the process died of undefined behaviour

vars == <<mNativeId, heap, nFree, uaf, ctx, msg, origin, pubKey, lastCall, crashed>>

\* repeat: the message was made from the plaintext and key of the message held
\* before it, with another draw of the random provider.
NoOrigin ==
  [made |-> FALSE, plaintext |-> <<>>, key |-> <<>>, random |-> <<>>, tampered |-> FALSE,
   repeat |-> FALSE]

\* The buffers of a call as they stood when the engine returned: the random
\* buffer (Encrypt), the plaintext buffer, its allocated length and the scratch
\* copy of the ciphertext (Decrypt); and the caller's plaintext array as the
\* call left it (Encrypt).
NoMem == [random |-> <<>>, plaintextBuf |-> <<>>, max |-> 0, copy |-> <<>>, plaintext |-> <<>>]

NoCall ==
  [op |-> "none", obj |-> "enc", handle |-> 0, pre |-> "Uninitialized", input |-> NullRef,
   events |-> <<>>, result |-> NullRef, error |-> NoError, ret |-> 0,
   last_error |-> "SUCCESS", mem |-> NoMem]

KeySet(o) == ctx[o].key # ZeroKey

Lifecycle(o) ==
  IF heap[o] = "none" THEN "Uninitialized"
  ELSE IF heap[o] = "freed" THEN "Released"
  ELSE IF KeySet(o) THEN "Ready" ELSE "Allocated"

\* ------------------------------------------------------ secure random helper
\* setRandomInBuffer(env, &buf, len): allocates buf and fills it from the
\* Secure Random Provider. It can fail before allocating ("failNull") or after
\* ("failAllocated"); the callers test the pointer, so both are kept.
RandomOutcomes == {"ok", "failNull", "failAllocated"}

setRandomInBuffer(outcome, random, randomLength) ==
  [ok |-> outcome = "ok",
   ptr |-> outcome # "failNull",
   buf |-> IF outcome = "ok" THEN SubSeq(random, 1, randomLength)
           ELSE [i \in 1..randomLength |-> Garbage],
   events |-> If(outcome # "failNull", <<Ev("malloc", "random")>>)
              \o If(outcome = "ok", <<Ev("fill", "random")>>)]

\* ----------------------------------------------------- encryption: create
initializePkEncryptionMemory(oom) ==
  [ptr |-> IF oom THEN 0 ELSE 1,
   events |-> <<Ev("query", "olm_pk_encryption_size")>>
              \o If(~oom, <<Ev("malloc", "ctx"), Ev("engine", "olm_pk_encryption")>>)]

createNewPkEncryptionJni_NoThrow(oom) ==
  LET init == initializePkEncryptionMemory(oom)
  IN [events |-> init.events, result |-> init.ptr, error |-> NoError]

createNewPkEncryptionJni(oom) ==
  LET init == initializePkEncryptionMemory(oom)
      errorMessage == IF init.ptr = 0 THEN "init encryption OOM" ELSE NoError
  IN [events |-> init.events
                 \o If(errorMessage # NoError,
                       If(init.ptr # 0, <<Ev("clear", "ctx"), Ev("free", "ctx")>>)
                       \o <<Ev("throw", errorMessage)>>),
      result |-> init.ptr,
      error |-> errorMessage]

\* ---------------------------------------------------- encryption: release
releasePkEncryptionJni(encryptionPtr) ==
  [events |-> If(encryptionPtr # 0, <<Ev("clear", "ctx"), Ev("free", "ctx")>>),
   error |-> NoError]

\* --------------------------------------------------- engine error capture
\* if (returnValue == olm_error()) errorMessage = olm_pk_..._last_error(ptr):
\* the statement that follows each of the four engine operations.
lastErrorQuery_Skipped(returnValue, last_error) == <<>>

lastErrorQuery(returnValue, last_error) ==
  If(returnValue = olm_error, <<Ev("engine", last_error)>>)

\* ------------------------------------------- encryption: set recipient key
setRecipientKeyThrow_Teardown(errorMessage) ==
  If(errorMessage # NoError,
     <<Ev("clear", "ctx"), Ev("free", "ctx"), Ev("throw", errorMessage)>>)

setRecipientKeyThrow(errorMessage) ==
  If(errorMessage # NoError, <<Ev("throw", errorMessage)>>)

setRecipientKeyJni(encryptionPtr, c, aKeyBuffer, viewFails) ==
  LET keyPtr == encryptionPtr # 0 /\ ~aKeyBuffer.isNull /\ ~viewFails
      eng == olm_pk_encryption_set_recipient_key(c.key, aKeyBuffer.v, Len(aKeyBuffer.v))
      errorMessage ==
        IF encryptionPtr = 0 THEN NoError
        ELSE IF aKeyBuffer.isNull THEN "invalid key"
        ELSE IF viewFails THEN "key JNI allocation OOM"
        ELSE IF eng.ret = olm_error THEN eng.last_error
        ELSE NoError
  IN [events |-> If(keyPtr, <<Ev("get", "key"),
                              Ev("engine", "olm_pk_encryption_set_recipient_key")>>
                            \o lastErrorQuery(eng.ret, "olm_pk_encryption_last_error")
                            \o <<Ev("release", "key")>>)
                 \o setRecipientKeyThrow(errorMessage),
      result |-> NullRef,
      error |-> errorMessage,
      ret |-> IF keyPtr THEN eng.ret ELSE 0,
      key |-> IF keyPtr THEN eng.key ELSE c.key,
      last_error |-> IF keyPtr THEN eng.last_error ELSE c.last_error,
      input |-> aKeyBuffer,
      mem |-> NoMem]

\* ------------------------------------------------------ encryption: encrypt
\* malloc(n): n bytes of indeterminate content.
Malloc(n) == [i \in 1..n |-> Garbage]

\* The engine (or memcpy) writing data at the start of a buffer.
WriteBuf(buf, data) == [i \in 1..Len(buf) |-> IF i <= Len(data) THEN data[i] ELSE buf[i]]

\* buf[length] = '\0' (indices here start at 1).
Terminate(buf, length) == [buf EXCEPT ![length + 1] = 0]

\* The first step of Encrypt that fails ("none": no step fails), in code order.
EncryptSteps ==
  <<"plaintextView", "class", "macField", "ephemeralField",
    "ciphertext", "mac", "ephemeral", "random">>

EncryptFails == {EncryptSteps[i] : i \in 1..Len(EncryptSteps)} \cup {"none"}

\* The position of each step in its chain ("none" comes after the last).
StepNo(steps) ==
  [f \in {steps[i] : i \in 1..Len(steps)} \cup {"none", "args"} |->
     IF \E i \in 1..Len(steps) : steps[i] = f
     THEN CHOOSE i \in 1..Len(steps) : steps[i] = f
     ELSE Len(steps) + 1]

EncryptStepNo == StepNo(EncryptSteps)

encryptedMsgRet_Always(returnValue, ciphertextBuf) == Ref(ciphertextBuf)

encryptedMsgRet(returnValue, ciphertextBuf) ==
  IF returnValue = olm_error THEN NullRef ELSE Ref(ciphertextBuf)

encryptCleanup_NoMac(randomBuffPtr, ephemeralPtr, macPtr, ciphertextPtr) ==
  If(randomBuffPtr, <<Ev("memset", "random"), Ev("free", "random")>>)
  \o If(ephemeralPtr, <<Ev("free", "ephemeral")>>)
  \o If(ciphertextPtr, <<Ev("free", "ciphertext")>>)

encryptCleanup(randomBuffPtr, ephemeralPtr, macPtr, ciphertextPtr) ==
  If(randomBuffPtr, <<Ev("memset", "random"), Ev("free", "random")>>)
  \o If(ephemeralPtr, <<Ev("free", "ephemeral")>>)
  \o If(macPtr, <<Ev("free", "mac")>>)
  \o If(ciphertextPtr, <<Ev("free", "ciphertext")>>)

\* The message after the engine returned: mMac and mEphemeralKey are set from
\* the two terminated buffers unless the engine returned the error sentinel.
encryptSetFields_Always(returnValue, m, macBuf, ephemeralBuf) ==
  [m EXCEPT !.mMac = Ref(NewStringUTF(macBuf)),
            !.mEphemeralKey = Ref(NewStringUTF(ephemeralBuf))]

encryptSetFields(returnValue, m, macBuf, ephemeralBuf) ==
  IF returnValue = olm_error THEN m
  ELSE [m EXCEPT !.mMac = Ref(NewStringUTF(macBuf)),
                 !.mEphemeralKey = Ref(NewStringUTF(ephemeralBuf))]

\* The random input olm_pk_encrypt is given: randomBuffPtr, randomLength.
encryptRandom_Constant(randomBuf, randomLength) == [i \in 1..randomLength |-> 1]

encryptRandom(randomBuf, randomLength) == SubSeq(randomBuf, 1, randomLength)

encryptJni(encryptionPtr, c, aPlaintextBuffer, m, fail, rndOutcome, random, engineOk) ==
  LET P(st) == EncryptStepNo[fail] > EncryptStepNo[st]
      argsOk == encryptionPtr # 0 /\ ~aPlaintextBuffer.isNull
      plaintextPtr == argsOk /\ P("plaintextView")
      inBlock == argsOk /\ P("ephemeralField")
      plaintextLength == Len(aPlaintextBuffer.v)
      ciphertextLength == olm_pk_ciphertext_length(plaintextLength)
      macLength == olm_pk_mac_length
      ephemeralLength == olm_pk_key_length
      randomLength == olm_pk_encrypt_random_length
      ciphertextPtr == inBlock /\ P("ciphertext")
      macPtr == inBlock /\ P("mac")
      ephemeralPtr == inBlock /\ P("ephemeral")
      rnd == setRandomInBuffer(IF fail = "random" THEN rndOutcome ELSE "ok",
                               random, randomLength)
      randomTried == ephemeralPtr
      randomBuffPtr == randomTried /\ rnd.ptr
      called == randomTried /\ rnd.ok
      randomBuf == encryptRandom(rnd.buf, randomLength)
      eng == olm_pk_encrypt(c.key, aPlaintextBuffer.v, randomBuf, engineOk)
      ciphertextBuf == WriteBuf(Malloc(ciphertextLength), eng.ciphertext)
      macBuf == WriteBuf(Terminate(Malloc(macLength + 1), macLength), eng.mac)
      ephemeralBuf == WriteBuf(Terminate(Malloc(ephemeralLength + 1), ephemeralLength),
                               eng.ephemeral)
      success == called /\ eng.ret # olm_error
      errorMessage ==
        IF encryptionPtr = 0 THEN NoError
        ELSE IF aPlaintextBuffer.isNull THEN "invalid clear message"
        ELSE IF fail = "plaintextView" THEN "plaintext JNI allocation OOM"
        ELSE IF fail = "class" THEN "unable to get crypted message class"
        ELSE IF fail = "macField" THEN "unable to get MAC field"
        ELSE IF fail = "ephemeralField" THEN "unable to get ephemeral key field"
        ELSE IF fail = "ciphertext" THEN "ciphertext JNI allocation OOM"
        ELSE IF fail = "mac" THEN "MAC JNI allocation OOM"
        ELSE IF fail = "ephemeral" THEN "ephemeral JNI allocation OOM"
        ELSE IF ~rnd.ok THEN "random buffer init"
        ELSE IF eng.ret = olm_error THEN eng.last_error
        ELSE NoError
  IN [events |->
        If(plaintextPtr, <<Ev("get", "plaintext")>>)
        \o If(inBlock,
              <<Ev("engine", "olm_pk_ciphertext_length"), Ev("engine", "olm_pk_mac_length"),
                Ev("query", "olm_pk_key_length"), Ev("engine", "olm_pk_encrypt_random_length")>>
              \o If(ciphertextPtr, <<Ev("malloc", "ciphertext")>>)
              \o If(macPtr, <<Ev("malloc", "mac")>>)
              \o If(ephemeralPtr, <<Ev("malloc", "ephemeral")>>)
              \o If(randomTried, rnd.events)
              \o If(called, <<Ev("engine", "olm_pk_encrypt")>>
                            \o lastErrorQuery(eng.ret, "olm_pk_encryption_last_error")
                            \o If(eng.ret # olm_error,
                                  <<Ev("set", "mMac"), Ev("set", "mEphemeralKey")>>))
              \o encryptCleanup(randomBuffPtr, ephemeralPtr, macPtr, ciphertextPtr))
        \o If(plaintextPtr, <<Ev("release", "plaintext")>>)
        \o If(errorMessage # NoError, <<Ev("throw", errorMessage)>>),
      result |-> IF called THEN encryptedMsgRet(eng.ret, ciphertextBuf) ELSE NullRef,
      error |-> errorMessage,
      ret |-> IF called THEN eng.ret ELSE 0,
      key |-> c.key,
      last_error |-> IF called THEN eng.last_error ELSE c.last_error,
      input |-> aPlaintextBuffer,
      mem |-> [NoMem EXCEPT
                 !.random = IF called THEN randomBuf ELSE <<>>,
                 !.plaintext = IF plaintextPtr
                               THEN ReleaseByteArrayElements(aPlaintextBuffer.v,
                                                             aPlaintextBuffer.v, "JNI_ABORT")
                               ELSE aPlaintextBuffer.v],
      msg |-> IF called THEN encryptSetFields(eng.ret, m, macBuf, ephemeralBuf) ELSE m]

\* ----------------------------------------------------- decryption: create
initializePkDecryptionMemory(oom) ==
  [ptr |-> IF oom THEN 0 ELSE 1,
   events |-> <<Ev("query", "olm_pk_decryption_size")>>
              \o If(~oom, <<Ev("malloc", "ctx"), Ev("engine", "olm_pk_decryption")>>)]

createNewPkDecryptionJni(oom) ==
  LET init == initializePkDecryptionMemory(oom)
      errorMessage == IF init.ptr = 0 THEN "init decryption OOM" ELSE NoError
  IN [events |-> init.events
                 \o If(errorMessage # NoError,
                       If(init.ptr # 0, <<Ev("clear", "ctx"), Ev("free", "ctx")>>)
                       \o <<Ev("throw", errorMessage)>>),
      result |-> init.ptr,
      error |-> errorMessage]

\* ---------------------------------------------------- decryption: release
releasePkDecryptionJni_FreeOnly(decryptionPtr) ==
  [events |-> If(decryptionPtr # 0, <<Ev("free", "ctx")>>),
   error |-> NoError]

releasePkDecryptionJni(decryptionPtr) ==
  [events |-> If(decryptionPtr # 0, <<Ev("clear", "ctx"), Ev("free", "ctx")>>),
   error |-> NoError]

\* ----------------------------------------------- decryption: generate key
generateKeyTeardown_ThrowOnly(errorMessage, decryptionPtr) ==
  If(errorMessage # NoError, <<Ev("throw", errorMessage)>>)

generateKeyTeardown(errorMessage, decryptionPtr) ==
  If(errorMessage # NoError,
     If(decryptionPtr # 0, <<Ev("clear", "ctx"), Ev("free", "ctx")>>)
     \o <<Ev("throw", errorMessage)>>)

generateKeyJni(decryptionPtr, c, rndOutcome, random, pkOom, engineOk) ==
  LET randomLength == olm_pk_generate_key_random_length
      publicKeyLength == olm_pk_key_length
      rnd == setRandomInBuffer(rndOutcome, random, randomLength)
      randomTried == decryptionPtr # 0
      randomBuffPtr == randomTried /\ rnd.ptr
      publicKeyPtr == randomTried /\ rnd.ok /\ ~pkOom
      called == publicKeyPtr
      eng == olm_pk_generate_key(rnd.buf, engineOk)
      publicKeyBuf == WriteBuf(Malloc(publicKeyLength), eng.public)
      success == called /\ eng.ret # olm_error
      errorMessage ==
        IF decryptionPtr = 0 THEN "invalid Decryption ptr=NULL"
        ELSE IF ~rnd.ok THEN "random buffer init"
        ELSE IF pkOom THEN "public key allocation OOM"
        ELSE IF eng.ret = olm_error THEN eng.last_error
        ELSE NoError
  IN [events |->
        <<Ev("query", "olm_pk_generate_key_random_length"), Ev("query", "olm_pk_key_length")>>
        \o If(randomTried, rnd.events)
        \o If(publicKeyPtr, <<Ev("malloc", "publicKey"), Ev("engine", "olm_pk_generate_key")>>
                            \o lastErrorQuery(eng.ret, "olm_pk_decryption_last_error"))
        \o If(randomBuffPtr, <<Ev("memset", "random"), Ev("free", "random")>>)
        \o generateKeyTeardown(errorMessage, decryptionPtr),
      result |-> IF success THEN Ref(publicKeyBuf) ELSE NullRef,
      error |-> errorMessage,
      ret |-> IF called THEN eng.ret ELSE 0,
      key |-> IF success THEN eng.key ELSE c.key,
      last_error |-> IF called THEN eng.last_error ELSE c.last_error,
      input |-> NullRef,
      mem |-> NoMem]

\* ---------------------------------------------------- decryption: decrypt
\* The steps of Decrypt's chain, in code order. A "...Null" step fails when the
\* message field is null, the others when the JNI call or malloc fails.
DecryptSteps ==
  <<"class", "ciphertextField", "ciphertextNull", "ciphertextView",
    "ciphertextNull2", "ciphertextView2", "macField", "macNull", "macView",
    "ephemeralField", "ephemeralNull", "ephemeralView", "plaintext", "tempCiphertext">>

DecryptStepNo == StepNo(DecryptSteps)

DecryptInjected ==
  {"class", "ciphertextField", "ciphertextView", "ciphertextView2", "macField", "macView",
   "ephemeralField", "ephemeralView", "plaintext", "tempCiphertext", "none"}

\* The step at which the chain stops: the first one that the message's null
\* fields or the injected failure make fail.
DecryptStop(m, inject) ==
  LET fails(st) ==
        \/ st = inject
        \/ st \in {"ciphertextNull", "ciphertextNull2"} /\ m.mCipherText.isNull
        \/ st = "macNull" /\ m.mMac.isNull
        \/ st = "ephemeralNull" /\ m.mEphemeralKey.isNull
      bad == {i \in 1..Len(DecryptSteps) : fails(DecryptSteps[i])}
  IN IF bad = {} THEN "none"
     ELSE DecryptSteps[CHOOSE i \in bad : \A j \in bad : i <= j]

decryptErrorMessage(stop) ==
  CASE stop = "class" -> "unable to get encrypted message class"
    [] stop = "ciphertextField" -> "unable to get message field"
    [] stop \in {"ciphertextNull", "ciphertextNull2"} -> "no ciphertext"
    [] stop \in {"ciphertextView", "ciphertextView2"} -> "ciphertext JNI allocation OOM"
    [] stop = "macField" -> "unable to get MAC field"
    [] stop = "macNull" -> "no MAC"
    [] stop = "macView" -> "ciphertext JNI allocation OOM"
    [] stop = "ephemeralField" -> "unable to get ephemeral key field"
    [] stop = "ephemeralNull" -> "no ephemeral key"
    [] stop = "ephemeralView" -> "ephemeral key JNI allocation OOM"
    [] stop = "plaintext" -> "plaintext JNI allocation OOM"
    [] OTHER -> NoError

\* if (plaintextLength == olm_error()) errorMessage = olm_pk_decryption_last_error(...)
decryptEngineError_Swallowed(plaintextLength, last_error) == NoError

decryptEngineError(plaintextLength, last_error) ==
  IF plaintextLength = olm_error THEN last_error ELSE NoError

decryptCleanup_NoTemp(tempCiphertextPtr, plaintextPtr) ==
  If(plaintextPtr, <<Ev("free", "plaintext")>>)

decryptCleanup(tempCiphertextPtr, plaintextPtr) ==
  If(tempCiphertextPtr, <<Ev("free", "tempCiphertext")>>)
  \o If(plaintextPtr, <<Ev("free", "plaintext")>>)

decryptedMsgRet_Short(plaintextBuf, plaintextLength) ==
  Ref(SubSeq(plaintextBuf, 1, plaintextLength - 1))

decryptedMsgRet_Max(plaintextBuf, plaintextLength) == Ref(plaintextBuf)

decryptedMsgRet(plaintextBuf, plaintextLength) == Ref(SubSeq(plaintextBuf, 1, plaintextLength))

decryptJni(decryptionPtr, c, msgNull, m, inject) ==
  LET argsOk == decryptionPtr # 0 /\ ~msgNull
      stop == IF argsOk THEN DecryptStop(m, inject) ELSE "args"
      P(st) == argsOk /\ DecryptStepNo[stop] > DecryptStepNo[st]
      ciphertextPtr == P("ciphertextView2")
      macPtr == P("macView")
      ephemeralKeyPtr == P("ephemeralView")
      inBlock == P("ephemeralView")
      ciphertextChars == GetStringUTFChars(m.mCipherText.v)
      ciphertextLength == GetStringUTFLength(m.mCipherText.v)
      maxPlaintextLength == olm_pk_max_plaintext_length(ciphertextLength)
      plaintextPtr == P("plaintext")
      tempCiphertextPtr == P("tempCiphertext")
      called == tempCiphertextPtr
      tempCiphertext == WriteBuf(Malloc(ciphertextLength),
                                 SubSeq(ciphertextChars, 1, ciphertextLength))
      eng == olm_pk_decrypt(c.key, GetStringUTFChars(m.mEphemeralKey.v),
                            GetStringUTFChars(m.mMac.v), tempCiphertext)
      plaintextBuf == WriteBuf(Malloc(maxPlaintextLength), eng.plaintext)
      success == called /\ eng.ret # olm_error
      errorMessage ==
        IF decryptionPtr = 0 THEN "invalid Decryption ptr=NULL"
        ELSE IF msgNull THEN "invalid encrypted message"
        ELSE IF stop # "none" THEN decryptErrorMessage(stop)
        ELSE decryptEngineError(eng.ret, eng.last_error)
  IN [events |->
        If(P("ciphertextView"), <<Ev("get", "ciphertext")>>)
        \o If(P("ciphertextView2"), <<Ev("get", "ciphertext")>>)
        \o If(macPtr, <<Ev("get", "mac")>>)
        \o If(ephemeralKeyPtr, <<Ev("get", "ephemeral")>>)
        \o If(inBlock,
              <<Ev("engine", "olm_pk_max_plaintext_length")>>
              \o If(plaintextPtr, <<Ev("malloc", "plaintext")>>)
              \o If(tempCiphertextPtr, <<Ev("malloc", "tempCiphertext"),
                                         Ev("memcpy", "tempCiphertext"),
                                         Ev("engine", "olm_pk_decrypt")>>
                                       \o lastErrorQuery(eng.ret, "olm_pk_decryption_last_error"))
              \o decryptCleanup(tempCiphertextPtr, plaintextPtr))
        \o If(ciphertextPtr, <<Ev("release", "ciphertext")>>)
        \o If(macPtr, <<Ev("release", "mac")>>)
        \o If(ephemeralKeyPtr, <<Ev("release", "ephemeral")>>)
        \o If(errorMessage # NoError, <<Ev("throw", errorMessage)>>),
      result |-> IF success THEN decryptedMsgRet(plaintextBuf, eng.ret) ELSE NullRef,
      error |-> errorMessage,
      ret |-> IF called THEN eng.ret ELSE 0,
      key |-> c.key,
      last_error |-> IF called THEN eng.last_error ELSE c.last_error,
      input |-> IF msgNull THEN NullRef ELSE Ref(<<>>),
      mem |-> [plaintext |-> <<>>,
               random |-> <<>>,
               plaintextBuf |-> IF called THEN plaintextBuf ELSE <<>>,
               max |-> IF inBlock THEN maxPlaintextLength ELSE 0,
               copy |-> IF called THEN tempCiphertext ELSE <<>>]]

\* ------------------------------------------------------------ the caller
\* The Java object keeps the handle Create returned and forgets it on release.
HandleAfterRelease(handle) == 0

KeyBuffers == {<<>>} \cup {<<d>> : d \in RandomBytes}

NoMessage == [mCipherText |-> NullRef, mMac |-> NullRef, mEphemeralKey |-> NullRef]

\* The caller's store of Encrypt's result into the message it passed.
StoreCiphertext(m, result) == [m EXCEPT !.mCipherText = Ref(TextOfBytes(result.v))]

\* The messages a caller can hold: none yet, or one an encryption produced.
Messages ==
  {NoMessage} \cup
  {LET r == encryptJni(1, [key |-> k, last_error |-> "SUCCESS"], Ref(p), NoMessage,
                       "none", "ok", <<e>>, TRUE)
   IN StoreCiphertext(r.msg, r.result) :
     p \in Plaintexts, k \in {ZeroKey} \cup {<<d>> : d \in RandomBytes}, e \in RandomBytes}

\* ------------------------------------------------------------------ actions
TouchesCtx(events) ==
  HasKind(events, "engine") \/ Has(events, Ev("clear", "ctx")) \/ Has(events, Ev("free", "ctx"))

\* What a call on a freed block can do: crash (TRUE) or run on the stale bytes.
Outcomes(o, events) ==
  IF heap[o] = "freed" /\ TouchesCtx(events) THEN BOOLEAN ELSE {FALSE}

CallRecord(o, op, r) ==
  [op |-> op, obj |-> o, handle |-> mNativeId[o], pre |-> Lifecycle(o), input |-> r.input,
   events |-> r.events, result |-> r.result, error |-> r.error, ret |-> r.ret,
   last_error |-> r.last_error, mem |-> r.mem]

\* The call ran to its end: the heap, the context and the handle after it.
Commit(o, op, r, handle2) ==
  \E frees \in {Count(r.events, Ev("free", "ctx"))} :
     /\ nFree[o] + frees <= MaxFree
     /\ heap' = [heap EXCEPT ![o] = IF frees > 0 THEN "freed"
                                    ELSE IF Has(r.events, Ev("malloc", "ctx")) THEN "live"
                                    ELSE @]
     /\ nFree' = [nFree EXCEPT ![o] = @ + frees]
     /\ uaf' = IF heap[o] = "freed" /\ TouchesCtx(r.events) THEN uaf \cup {o} ELSE uaf
     /\ ctx' = [ctx EXCEPT ![o] = IF Has(r.events, Ev("clear", "ctx"))
                                  THEN [key |-> ZeroKey, last_error |-> "SUCCESS"]
                                  ELSE [key |-> r.key, last_error |-> r.last_error]]
     /\ mNativeId' = [mNativeId EXCEPT ![o] = handle2]
     /\ lastCall' = CallRecord(o, op, r)
     /\ crashed' = FALSE

\* The call died on the freed block.
Crash(o, op) ==
  /\ crashed' = TRUE
  /\ uaf' = uaf \cup {o}
  /\ lastCall' = [op |-> op, obj |-> o, handle |-> mNativeId[o], pre |-> Lifecycle(o),
                  input |-> NullRef, events |-> <<Ev("crash", "ctx")>>, result |-> NullRef,
                  error |-> NoError, ret |-> 0, last_error |-> ctx[o].last_error,
                  mem |-> NoMem]
  /\ UNCHANGED <<mNativeId, heap, nFree, ctx, msg, origin, pubKey>>

\* A handler's record completed with the fields Create and Release do not have.
WithCtx(o, r, result) ==
  [events |-> r.events, error |-> r.error, result |-> result, ret |-> 0,
   key |-> ctx[o].key, last_error |-> ctx[o].last_error, input |-> NullRef, mem |-> NoMem]

JLong(ptr) == IF ptr = 0 THEN NullRef ELSE Ref(<<ptr>>)

\* F: whether the environment may fail in this call (allocation, JNI lookup,
\* random provider, a rejection by the engine for a reason of its own).
CreateEncryption(F) ==
  /\ ~crashed
  /\ heap["enc"] = "none"
  /\ \E oom \in IF F THEN BOOLEAN ELSE {FALSE} :
     \E r0 \in {createNewPkEncryptionJni(oom)} :
     \E r \in {WithCtx("enc", r0, JLong(r0.result))} :
       /\ Commit("enc", "Create", r, r0.result)
       /\ UNCHANGED <<msg, origin, pubKey>>

ReleaseEncryption ==
  /\ ~crashed
  /\ \E r0 \in {releasePkEncryptionJni(mNativeId["enc"])} :
     \E r \in {WithCtx("enc", r0, NullRef)} :
     \E crash \in Outcomes("enc", r.events) :
       IF crash THEN Crash("enc", "Release")
       ELSE /\ Commit("enc", "Release", r, HandleAfterRelease(mNativeId["enc"]))
            /\ UNCHANGED <<msg, origin, pubKey>>

SetRecipientKey(F) ==
  /\ ~crashed
  /\ \E aKeyBuffer \in {NullRef} \cup {Ref(k) : k \in KeyBuffers} :
     \E viewFails \in IF F /\ ~aKeyBuffer.isNull THEN BOOLEAN ELSE {FALSE} :
     \E r \in {setRecipientKeyJni(mNativeId["enc"], ctx["enc"], aKeyBuffer, viewFails)} :
     \E crash \in Outcomes("enc", r.events) :
       IF crash THEN Crash("enc", "SetRecipientKey")
       ELSE /\ Commit("enc", "SetRecipientKey", r, mNativeId["enc"])
            /\ UNCHANGED <<msg, origin, pubKey>>

Encrypt(F) ==
  /\ ~crashed
  /\ \E fail \in IF F THEN EncryptFails ELSE {"none"} :
     \E aPlaintextBuffer \in IF fail = "none" THEN {NullRef} \cup {Ref(p) : p \in Plaintexts}
                             ELSE {Ref(<<>>)},
        rndOutcome \in IF fail = "random" THEN RandomOutcomes \ {"ok"} ELSE {"ok"},
        random \in IF fail = "none" THEN {<<b>> : b \in RandomBytes} ELSE {<<1>>},
        engineOk \in IF fail = "none" /\ F THEN BOOLEAN ELSE {TRUE} :
     \E r \in {encryptJni(mNativeId["enc"], ctx["enc"], aPlaintextBuffer, msg,
                          fail, rndOutcome, random, engineOk)} :
     \E crash \in Outcomes("enc", r.events) :
       IF crash THEN Crash("enc", "Encrypt")
       ELSE /\ Commit("enc", "Encrypt", r, mNativeId["enc"])
            /\ msg' = IF r.error = NoError /\ ~r.result.isNull
                      THEN StoreCiphertext(r.msg, r.result) ELSE r.msg
            /\ origin' = IF r.error = NoError /\ ~r.result.isNull
                         THEN [made |-> TRUE, plaintext |-> aPlaintextBuffer.v,
                               key |-> ctx["enc"].key, random |-> random,
                               tampered |-> FALSE,
                               repeat |-> /\ origin.made
                                          /\ ~origin.tampered
                                          /\ origin.plaintext = aPlaintextBuffer.v
                                          /\ origin.key = ctx["enc"].key
                                          /\ origin.random # random]
                         ELSE origin
            /\ UNCHANGED pubKey

CreateDecryption(F) ==
  /\ ~crashed
  /\ heap["dec"] = "none"
  /\ \E oom \in IF F THEN BOOLEAN ELSE {FALSE} :
     \E r0 \in {createNewPkDecryptionJni(oom)} :
     \E r \in {WithCtx("dec", r0, JLong(r0.result))} :
       /\ Commit("dec", "Create", r, r0.result)
       /\ UNCHANGED <<msg, origin, pubKey>>

ReleaseDecryption ==
  /\ ~crashed
  /\ \E r0 \in {releasePkDecryptionJni(mNativeId["dec"])} :
     \E r \in {WithCtx("dec", r0, NullRef)} :
     \E crash \in Outcomes("dec", r.events) :
       IF crash THEN Crash("dec", "Release")
       ELSE /\ Commit("dec", "Release", r, HandleAfterRelease(mNativeId["dec"]))
            /\ pubKey' = NullRef
            /\ UNCHANGED <<msg, origin>>

GenerateKey(F) ==
  /\ ~crashed
  /\ \E rndOutcome \in IF F THEN RandomOutcomes ELSE {"ok"} :
     \E pkOom \in IF F /\ rndOutcome = "ok" THEN BOOLEAN ELSE {FALSE} :
     \E random \in IF rndOutcome = "ok" /\ ~pkOom THEN {<<b>> : b \in RandomBytes} ELSE {<<1>>},
        engineOk \in IF F /\ rndOutcome = "ok" /\ ~pkOom THEN BOOLEAN ELSE {TRUE} :
     \E r \in {generateKeyJni(mNativeId["dec"], ctx["dec"], rndOutcome, random,
                              pkOom, engineOk)} :
     \E crash \in Outcomes("dec", r.events) :
       IF crash THEN Crash("dec", "GenerateKey")
       ELSE /\ Commit("dec", "GenerateKey", r, mNativeId["dec"])
            /\ pubKey' = IF ~r.result.isNull THEN Ref(TextOfBytes(r.result.v))
                         ELSE IF Has(r.events, Ev("free", "ctx")) THEN NullRef
                         ELSE pubKey
            /\ UNCHANGED <<msg, origin>>

Decrypt(F) ==
  /\ ~crashed
  /\ \E msgNull \in BOOLEAN :
     \E inject \in IF F /\ ~msgNull THEN DecryptInjected ELSE {"none"} :
     \E r \in {decryptJni(mNativeId["dec"], ctx["dec"], msgNull, msg, inject)} :
     \E crash \in Outcomes("dec", r.events) :
       IF crash THEN Crash("dec", "Decrypt")
       ELSE /\ Commit("dec", "Decrypt", r, mNativeId["dec"])
            /\ UNCHANGED <<msg, origin, pubKey>>

\* The message altered between Encrypt and Decrypt: one character of its MAC
\* or of its ephemeral key replaced by another one.
FlipChar(ch, n) == (ch % n) + 1

Tamper ==
  /\ ~crashed
  /\ origin.made
  /\ ~origin.tampered
  /\ \E field \in {"mMac", "mEphemeralKey"} :
       /\ ~msg[field].isNull
       /\ msg[field].v # <<>>
       /\ msg' = [msg EXCEPT ![field] =
                    Ref([@.v EXCEPT ![1] = FlipChar(@, IF field = "mMac" THEN MacMod
                                                       ELSE MaxRand)])]
  /\ origin' = [origin EXCEPT !.tampered = TRUE]
  /\ lastCall' = [NoCall EXCEPT !.op = "Tamper"]
  /\ UNCHANGED <<mNativeId, heap, nFree, uaf, ctx, pubKey, crashed>>

\* ----------------------------------------------------------- specifications
InitObjects ==
  /\ mNativeId = [o \in Objs |-> 0]
  /\ heap = [o \in Objs |-> "none"]
  /\ nFree = [o \in Objs |-> 0]
  /\ uaf = {}
  /\ ctx = [o \in Objs |-> [key |-> ZeroKey, last_error |-> "SUCCESS"]]
  /\ origin = NoOrigin
  /\ pubKey = NullRef
  /\ lastCall = NoCall
  /\ crashed = FALSE

\* Spec: one bridge object, every operation on it with every failure of the
\* environment, the caller holding any message. The two objects share no
\* native state, so a behaviour works on one of them.
Init == InitObjects /\ msg \in Messages

Solo(o) == lastCall.op = "none" \/ lastCall.obj = o

Next ==
  \/ Solo("enc") /\ CreateEncryption(TRUE)
  \/ Solo("enc") /\ ReleaseEncryption
  \/ Solo("enc") /\ SetRecipientKey(TRUE)
  \/ Solo("enc") /\ Encrypt(TRUE)
  \/ Solo("dec") /\ CreateDecryption(TRUE)
  \/ Solo("dec") /\ ReleaseDecryption
  \/ Solo("dec") /\ GenerateKey(TRUE)
  \/ Solo("dec") /\ Decrypt(TRUE)

Spec == Init /\ [][Next]_vars

\* SpecRoundTrip: both objects and the message passing from one to the other,
\* in an environment that does not fail.
InitRoundTrip == InitObjects /\ msg = NoMessage

NextRoundTrip ==
  \/ CreateEncryption(FALSE)
  \/ ReleaseEncryption
  \/ SetRecipientKey(FALSE)
  \/ Encrypt(FALSE)
  \/ CreateDecryption(FALSE)
  \/ ReleaseDecryption
  \/ GenerateKey(FALSE)
  \/ Decrypt(FALSE)
  \/ Tamper

SpecRoundTrip == InitRoundTrip /\ [][NextRoundTrip]_vars

\* -------------------------------------------------------------------- claims
Operations == {"SetRecipientKey", "Encrypt", "GenerateKey", "Decrypt"}

CrashedCall == Has(lastCall.events, Ev("crash", "ctx"))

\* C1: when GenerateKey returned K on the decryption context, the encryption
\* context's recipient key is K and Encrypt(P) produced the message, a Decrypt
\* of that message (as produced, not altered) which reaches the engine raises no error and returns
\* exactly P.
RoundTrip ==
  [][(/\ Lifecycle("dec") = "Ready"
      /\ ~pubKey.isNull
      /\ origin.made
      /\ ~origin.tampered
      /\ origin.key = pubKey.v
      /\ lastCall'.op = "Decrypt"
      /\ Has(lastCall'.events, Ev("engine", "olm_pk_decrypt")))
     => (lastCall'.error = NoError /\ lastCall'.result = Ref(origin.plaintext))]_vars

RoundTripDone ==
  /\ lastCall.op = "Decrypt"
  /\ Lifecycle("dec") = "Ready"
  /\ ~pubKey.isNull
  /\ origin.made
  /\ ~origin.tampered
  /\ origin.key = pubKey.v
  /\ Len(origin.plaintext) > 0
  /\ lastCall.result = Ref(origin.plaintext)

\* C2: an operation called after Release on a handle that had been created
\* raises an error, returns no result and does not touch the freed block.
UseAfterReleaseFails ==
  (/\ lastCall.op \in Operations
   /\ lastCall.pre = "Released"
   /\ lastCall.handle = 0)
  => (/\ lastCall.error # NoError
      /\ lastCall.result.isNull
      /\ ~TouchesCtx(lastCall.events))

\* C3: the block of a created context is cleared and freed at most once,
\* whatever the operations called on its handle.
NoDoubleFree == \A o \in Objs : nFree[o] <= 1 /\ o \notin uaf

\* C4: a GenerateKey on a live context that fails clears and frees the
\* context and raises an error, so that the context is Released after the
\* call; one that succeeds frees nothing and leaves the context Ready.
GenerateKeyFailureFrees ==
  (/\ lastCall.op = "GenerateKey"
   /\ lastCall.pre \in {"Allocated", "Ready"})
  => IF lastCall.result.isNull
     THEN /\ lastCall.error # NoError
          /\ Has(lastCall.events, Ev("throw", lastCall.error))
          /\ Count(lastCall.events, Ev("clear", "ctx")) = 1
          /\ Count(lastCall.events, Ev("free", "ctx")) = 1
          /\ heap["dec"] = "freed"
          /\ Lifecycle("dec") = "Released"
     ELSE /\ lastCall.error = NoError
          /\ ~Has(lastCall.events, Ev("clear", "ctx"))
          /\ ~Has(lastCall.events, Ev("free", "ctx"))
          /\ heap["dec"] = "live"
          /\ Lifecycle("dec") = "Ready"

GenerateKeyTornDown ==
  /\ lastCall.op = "GenerateKey"
  /\ lastCall.pre = "Allocated"
  /\ lastCall.result.isNull
  /\ Lifecycle("dec") = "Released"
  /\ nFree["dec"] = 1

\* C5: once a GenerateKey has failed on a handle (the context is freed and the
\* caller still holds the handle), GenerateKey and Decrypt on it fail without
\* an engine call on the freed block, and Release does not free it again.
FailedGenerateKeyIsReleased ==
  (/\ lastCall.op \in {"GenerateKey", "Decrypt", "Release"}
   /\ lastCall.obj = "dec"
   /\ lastCall.pre = "Released"
   /\ lastCall.handle # 0)
  => (/\ ~CrashedCall
      /\ ~TouchesCtx(lastCall.events)
      /\ lastCall.op # "Release" => (lastCall.error # NoError /\ lastCall.result.isNull))

\* C6: each operation called on a null handle raises an error and makes no
\* engine call.
NullHandleRejected ==
  (lastCall.op \in Operations /\ lastCall.handle = 0)
  => (lastCall.error # NoError /\ ~HasKind(lastCall.events, "engine"))

\* C7: SetRecipientKey, Encrypt and Decrypt never clear or free the context:
\* the block, the handle and the lifecycle state are the same after the call,
\* except that a successful SetRecipientKey moves Allocated to Ready.
ContextPreserved ==
  [][lastCall'.op \in {"SetRecipientKey", "Encrypt", "Decrypt"}
     => (/\ heap' = heap
         /\ nFree' = nFree
         /\ mNativeId' = mNativeId
         /\ ~Has(lastCall'.events, Ev("clear", "ctx"))
         /\ ~Has(lastCall'.events, Ev("free", "ctx"))
         /\ \A o \in Objs :
              \/ Lifecycle(o)' = Lifecycle(o)
              \/ /\ lastCall'.op = "SetRecipientKey"
                 /\ lastCall'.error = NoError
                 /\ Lifecycle(o) = "Allocated"
                 /\ Lifecycle(o)' = "Ready")]_vars

FailedEncryptKeepsContext ==
  /\ lastCall.op = "Encrypt"
  /\ lastCall.pre = "Ready"
  /\ lastCall.error # NoError
  /\ heap["enc"] = "live"
  /\ Lifecycle("enc") = "Ready"

\* C8: no Encrypt, Decrypt or GenerateKey both returns a result and raises an
\* error, and a result is returned only when the engine's call returned a
\* value other than the error sentinel and no error message was set.
EngineCallOf ==
  [op \in {"Encrypt", "Decrypt", "GenerateKey"} |->
     IF op = "Encrypt" THEN "olm_pk_encrypt"
     ELSE IF op = "Decrypt" THEN "olm_pk_decrypt" ELSE "olm_pk_generate_key"]

ResultXorError ==
  lastCall.op \in {"Encrypt", "Decrypt", "GenerateKey"}
  => (/\ ~(~lastCall.result.isNull /\ lastCall.error # NoError)
      /\ ~lastCall.result.isNull
         => (/\ Has(lastCall.events, Ev("engine", EngineCallOf[lastCall.op]))
             /\ lastCall.ret # olm_error
             /\ lastCall.error = NoError
             /\ ~HasKind(lastCall.events, "throw")))

EncryptReturned ==
  /\ lastCall.op = "Encrypt"
  /\ ~lastCall.result.isNull
  /\ lastCall.error = NoError

\* C9: Encrypt on a context on which no SetRecipientKey has succeeded
\* (Allocated) raises an error and returns no message.
EncryptNeedsRecipientKey ==
  (lastCall.op = "Encrypt" /\ lastCall.pre = "Allocated")
  => (lastCall.result.isNull /\ lastCall.error # NoError)

\* C10: at the return of Encrypt each of the ciphertext, MAC, ephemeral-key
\* and random buffers it allocated has been freed exactly once, after its
\* allocation; a call whose random provider failed (the three buffers were
\* allocated and the engine was not called) raises the random-buffer error,
\* returns nothing and leaves none of them allocated.
EncryptBuffers == {"ciphertext", "mac", "ephemeral", "random"}

EncryptLeaksNothing ==
  (lastCall.op = "Encrypt" /\ ~CrashedCall)
  => (/\ \A b \in EncryptBuffers :
           /\ Count(lastCall.events, Ev("malloc", b)) <= 1
           /\ Count(lastCall.events, Ev("free", b)) = Count(lastCall.events, Ev("malloc", b))
           /\ Has(lastCall.events, Ev("free", b))
              => Pos(lastCall.events, Ev("malloc", b)) < Pos(lastCall.events, Ev("free", b))
      /\ (/\ Has(lastCall.events, Ev("malloc", "ephemeral"))
          /\ ~Has(lastCall.events, Ev("engine", "olm_pk_encrypt")))
         => (/\ lastCall.error = "random buffer init"
             /\ Has(lastCall.events, Ev("throw", lastCall.error))
             /\ lastCall.result.isNull))

RandomFailureCleanedUp ==
  /\ lastCall.op = "Encrypt"
  /\ lastCall.error = "random buffer init"
  /\ Has(lastCall.events, Ev("malloc", "random"))
  /\ \A b \in EncryptBuffers : Count(lastCall.events, Ev("free", b)) = 1

\* C11: at the return of GenerateKey each buffer the call allocated (the
\* random buffer, the public-key output buffer) has been freed.
GenerateKeyBuffers == {"random", "publicKey"}

GenerateKeyLeaksNothing ==
  (lastCall.op = "GenerateKey" /\ ~CrashedCall)
  => \A b \in GenerateKeyBuffers :
       Count(lastCall.events, Ev("free", b)) = Count(lastCall.events, Ev("malloc", b))

\* C12: in every call, each free of a random buffer comes right after the
\* memset that zeroes it, and each free of a context right after the engine's
\* clear of it: no secret-bearing block is freed unwiped.
WipeOf == [b \in {"random", "ctx"} |-> IF b = "random" THEN Ev("memset", b) ELSE Ev("clear", b)]

WipeBeforeFree ==
  \A i \in 1..Len(lastCall.events) :
    \A b \in {"random", "ctx"} :
      lastCall.events[i] = Ev("free", b)
      => (i > 1 /\ lastCall.events[i - 1] = WipeOf[b])

GenerateKeyWipedBoth ==
  /\ lastCall.op = "GenerateKey"
  /\ Has(lastCall.events, Ev("free", "random"))
  /\ Has(lastCall.events, Ev("free", "ctx"))
  /\ Pos(lastCall.events, Ev("memset", "random")) < Pos(lastCall.events, Ev("free", "random"))
  /\ Pos(lastCall.events, Ev("clear", "ctx")) < Pos(lastCall.events, Ev("free", "ctx"))

\* C13: a Create whose allocation fails raises an error, returns the null
\* handle and leaves no block allocated; one whose allocation succeeds returns
\* a non-null handle to a context the engine initialised and raises no error.
InitCallOf == [o \in Objs |-> IF o = "enc" THEN "olm_pk_encryption" ELSE "olm_pk_decryption"]

CreateIsClean ==
  lastCall.op = "Create"
  => IF Has(lastCall.events, Ev("malloc", "ctx"))
     THEN /\ lastCall.error = NoError
          /\ ~HasKind(lastCall.events, "throw")
          /\ ~lastCall.result.isNull
          /\ mNativeId[lastCall.obj] # 0
          /\ heap[lastCall.obj] = "live"
          /\ Has(lastCall.events, Ev("engine", InitCallOf[lastCall.obj]))
          /\ Lifecycle(lastCall.obj) = "Allocated"
     ELSE /\ lastCall.error # NoError
          /\ Has(lastCall.events, Ev("throw", lastCall.error))
          /\ lastCall.result.isNull
          /\ mNativeId[lastCall.obj] = 0
          /\ heap[lastCall.obj] = "none"
          /\ ~Has(lastCall.events, Ev("free", "ctx"))

CreateFailed ==
  /\ lastCall.op = "Create"
  /\ lastCall.obj = "enc"
  /\ ~Has(lastCall.events, Ev("malloc", "ctx"))
  /\ lastCall.error = "init encryption OOM"
  /\ lastCall.result.isNull

\* C14: SetRecipientKey on a live context with a null or an empty key buffer
\* raises the invalid-key error and makes no engine call; with a non-empty
\* buffer (whose view was obtained) it calls the engine's set_recipient_key and
\* raises an error, the engine's last_error message, exactly when the engine
\* returned the error sentinel.
SetRecipientKeyChecksKey ==
  (/\ lastCall.op = "SetRecipientKey"
   /\ lastCall.handle # 0
   /\ lastCall.pre \in {"Allocated", "Ready"})
  => IF lastCall.input.isNull \/ lastCall.input.v = <<>>
     THEN /\ lastCall.error = "invalid key"
          /\ Has(lastCall.events, Ev("throw", lastCall.error))
          /\ ~HasKind(lastCall.events, "engine")
     ELSE lastCall.error # "key JNI allocation OOM"
          => /\ Has(lastCall.events, Ev("engine", "olm_pk_encryption_set_recipient_key"))
             /\ (lastCall.ret = olm_error) <=> (lastCall.error # NoError)
             /\ lastCall.ret = olm_error
                => /\ lastCall.error = lastCall.last_error
                   /\ Has(lastCall.events, Ev("throw", lastCall.error))

\* C15: a Decrypt of a message made for the context's key whose MAC or
\* ephemeral key was altered afterwards gets the error sentinel from the
\* engine; and whenever the engine's decrypt returns the sentinel, Decrypt
\* raises the engine's last_error message and returns no plaintext.
TamperedIsRejected ==
  (/\ lastCall.op = "Decrypt"
   /\ Has(lastCall.events, Ev("engine", "olm_pk_decrypt")))
  => /\ (/\ origin.made
         /\ origin.tampered
         /\ Lifecycle("dec") = "Ready"
         /\ ~pubKey.isNull
         /\ origin.key = pubKey.v)
        => lastCall.ret = olm_error
     /\ lastCall.ret = olm_error
        => /\ lastCall.error # NoError
           /\ lastCall.error = lastCall.last_error
           /\ Has(lastCall.events, Ev("throw", lastCall.error))
           /\ lastCall.result.isNull

TamperedRejected ==
  /\ lastCall.op = "Decrypt"
  /\ origin.made
  /\ origin.tampered
  /\ Len(origin.plaintext) > 0
  /\ Lifecycle("dec") = "Ready"
  /\ ~pubKey.isNull
  /\ origin.key = pubKey.v
  /\ lastCall.error = "BAD_MESSAGE_MAC"
  /\ lastCall.result.isNull

\* C16: every Encrypt that reaches the engine has asked the engine for the
\* random length, drawn one buffer of that length from the random provider
\* in this call, handed those bytes to the engine and wiped and freed the
\* buffer before returning; and an Encrypt of the plaintext of the message
\* held before, under the same recipient key, with another draw, gives a
\* different ciphertext and a different ephemeral key.
EncryptDrawOrder ==
  <<Ev("engine", "olm_pk_encrypt_random_length"), Ev("malloc", "random"), Ev("fill", "random"),
    Ev("engine", "olm_pk_encrypt"), Ev("memset", "random"), Ev("free", "random")>>

FreshRandomness ==
  [][(/\ lastCall'.op = "Encrypt"
      /\ Has(lastCall'.events, Ev("engine", "olm_pk_encrypt")))
     => /\ \A i \in 1..Len(EncryptDrawOrder) :
             /\ Count(lastCall'.events, EncryptDrawOrder[i]) = 1
             /\ i > 1 => Pos(lastCall'.events, EncryptDrawOrder[i - 1])
                         < Pos(lastCall'.events, EncryptDrawOrder[i])
        /\ Len(lastCall'.mem.random) = olm_pk_encrypt_random_length
        /\ ~lastCall'.result.isNull
           => /\ origin'.made
              /\ lastCall'.mem.random = origin'.random
              /\ (origin'.repeat /\ origin'.key # ZeroKey)
                 => /\ msg'.mCipherText # msg.mCipherText
                    /\ msg'.mEphemeralKey # msg.mEphemeralKey]_vars

EncryptedAgain ==
  /\ lastCall.op = "Encrypt"
  /\ ~lastCall.result.isNull
  /\ origin.made
  /\ origin.repeat
  /\ origin.key # ZeroKey
  /\ Len(origin.plaintext) > 0
  /\ lastCall.mem.random = origin.random

\* C17: in SetRecipientKey, Encrypt, GenerateKey and Decrypt, when the engine's
\* operation returns the error sentinel, the event right after it is the
\* engine's last_error on that context (no other engine call, no clear, in
\* between), and the message raised is the one last_error returned.
MainCallOf ==
  [op \in Operations |->
     IF op = "SetRecipientKey" THEN "olm_pk_encryption_set_recipient_key"
     ELSE EngineCallOf[op]]

LastErrorOf ==
  [o \in Objs |-> IF o = "enc" THEN "olm_pk_encryption_last_error"
                  ELSE "olm_pk_decryption_last_error"]

ErrorCapturedAtOnce ==
  (lastCall.op \in Operations /\ lastCall.ret = olm_error)
  => /\ Count(lastCall.events, Ev("engine", MainCallOf[lastCall.op])) = 1
     /\ Count(lastCall.events, Ev("engine", LastErrorOf[lastCall.obj])) = 1
     /\ Pos(lastCall.events, Ev("engine", LastErrorOf[lastCall.obj]))
        = Pos(lastCall.events, Ev("engine", MainCallOf[lastCall.op])) + 1
     /\ lastCall.error = lastCall.last_error
     /\ Has(lastCall.events, Ev("throw", lastCall.last_error))

GenerateKeyErrorCaptured ==
  /\ lastCall.op = "GenerateKey"
  /\ lastCall.ret = olm_error
  /\ lastCall.error = "NOT_ENOUGH_RANDOM"
  /\ Has(lastCall.events, Ev("clear", "ctx"))
  /\ Pos(lastCall.events, Ev("engine", "olm_pk_decryption_last_error"))
     < Pos(lastCall.events, Ev("clear", "ctx"))

\* C18: a Decrypt that got as far as sizing its buffers and in which the
\* allocation of the plaintext buffer or of the scratch ciphertext failed
\* raises an error, returns no plaintext and does not call the engine's
\* decrypt.
DecryptAllocationFailureReported ==
  (/\ lastCall.op = "Decrypt"
   /\ Has(lastCall.events, Ev("engine", "olm_pk_max_plaintext_length"))
   /\ \/ ~Has(lastCall.events, Ev("malloc", "plaintext"))
      \/ ~Has(lastCall.events, Ev("malloc", "tempCiphertext")))
  => /\ lastCall.error # NoError
     /\ Has(lastCall.events, Ev("throw", lastCall.error))
     /\ lastCall.result.isNull
     /\ ~Has(lastCall.events, Ev("engine", "olm_pk_decrypt"))

\* C19: a Decrypt whose engine call succeeded returns a byte sequence whose
\* length is the plaintext length the engine reported and whose bytes are the
\* first that-many bytes of the plaintext buffer; that length is at most the
\* length the buffer was allocated with; otherwise nothing is returned.
DecryptReturnsReportedLength ==
  lastCall.op = "Decrypt"
  => IF Has(lastCall.events, Ev("engine", "olm_pk_decrypt")) /\ lastCall.ret # olm_error
     THEN /\ ~lastCall.result.isNull
          /\ Len(lastCall.result.v) = lastCall.ret
          /\ lastCall.ret <= lastCall.mem.max
          /\ Len(lastCall.mem.plaintextBuf) = lastCall.mem.max
          /\ lastCall.result.v = SubSeq(lastCall.mem.plaintextBuf, 1, lastCall.ret)
     ELSE lastCall.result.isNull

DecryptReturnedPrefix ==
  /\ lastCall.op = "Decrypt"
  /\ ~lastCall.result.isNull
  /\ lastCall.ret > 0
  /\ lastCall.ret < lastCall.mem.max
  /\ Len(lastCall.result.v) = lastCall.ret

\* C20: in every Decrypt the plaintext buffer and the scratch ciphertext, if
\* allocated, are freed exactly once, after their allocation; the engine's
\* decrypt is called after the memcpy into the scratch buffer and before its
\* free, on a copy equal byte for byte to the text view of the message's
\* ciphertext; and the message's three fields are the same after the call.
DecryptBuffers == {"plaintext", "tempCiphertext"}

DecryptOrder ==
  <<Ev("malloc", "tempCiphertext"), Ev("memcpy", "tempCiphertext"),
    Ev("engine", "olm_pk_decrypt"), Ev("free", "tempCiphertext")>>

DecryptCleansUpAndPreserves ==
  [][(lastCall'.op = "Decrypt" /\ ~crashed')
     => /\ msg' = msg
        /\ ~HasKind(lastCall'.events, "set")
        /\ \A b \in DecryptBuffers :
             /\ Count(lastCall'.events, Ev("malloc", b)) <= 1
             /\ Count(lastCall'.events, Ev("free", b))
                = Count(lastCall'.events, Ev("malloc", b))
             /\ Has(lastCall'.events, Ev("free", b))
                => Pos(lastCall'.events, Ev("malloc", b)) < Pos(lastCall'.events, Ev("free", b))
        /\ Has(lastCall'.events, Ev("engine", "olm_pk_decrypt"))
           => /\ lastCall'.mem.copy = GetStringUTFChars(msg.mCipherText.v)
              /\ \A i \in 2..Len(DecryptOrder) :
                   Pos(lastCall'.events, DecryptOrder[i - 1])
                   < Pos(lastCall'.events, DecryptOrder[i])]_vars

FailedDecryptCleanedUp ==
  /\ lastCall.op = "Decrypt"
  /\ lastCall.ret = olm_error
  /\ lastCall.mem.copy # <<>>
  /\ lastCall.mem.copy = GetStringUTFChars(msg.mCipherText.v)
  /\ \A b \in DecryptBuffers : Count(lastCall.events, Ev("free", b)) = 1

\* C21: in every Decrypt each text view taken from the message (ciphertext,
\* MAC, ephemeral key) is released exactly once before return: as many
\* releases as acquisitions, for each of the three.
DecryptViews == {"ciphertext", "mac", "ephemeral"}

DecryptViewsBalanced ==
  (lastCall.op = "Decrypt" /\ ~CrashedCall)
  => \A v \in DecryptViews :
       Count(lastCall.events, Ev("release", v)) = Count(lastCall.events, Ev("get", v))

\* C22: an Encrypt sets the message's mMac and mEphemeralKey, once each and
\* after the engine's encrypt, exactly when that call returned a value other
\* than the error sentinel; in every other call the message is the same after
\* the call and no field is set; and the caller's plaintext array is the same
\* after every call, its view released once if it was taken.
EncryptWritesOnlyOnSuccess ==
  [][lastCall'.op = "Encrypt"
     => /\ IF /\ Has(lastCall'.events, Ev("engine", "olm_pk_encrypt"))
              /\ lastCall'.ret # olm_error
           THEN /\ \A f \in {"mMac", "mEphemeralKey"} :
                     /\ Count(lastCall'.events, Ev("set", f)) = 1
                     /\ Pos(lastCall'.events, Ev("engine", "olm_pk_encrypt"))
                        < Pos(lastCall'.events, Ev("set", f))
                     /\ ~msg'[f].isNull
                /\ lastCall'.error = NoError
           ELSE /\ msg' = msg
                /\ ~HasKind(lastCall'.events, "set")
        /\ ~crashed'
           => /\ lastCall'.mem.plaintext = lastCall'.input.v
              /\ Count(lastCall'.events, Ev("release", "plaintext"))
                 = Count(lastCall'.events, Ev("get", "plaintext"))]_vars

EngineFailedMessageKept ==
  /\ lastCall.op = "Encrypt"
  /\ lastCall.ret = olm_error
  /\ Has(lastCall.events, Ev("engine", "olm_pk_encrypt"))
  /\ ~HasKind(lastCall.events, "set")
  /\ ~msg.mMac.isNull
  /\ Len(lastCall.input.v) > 0
  /\ lastCall.mem.plaintext = lastCall.input.v

====
